---- MODULE Spec2Model ----
(***************************************************************************)
(* Bilean billing engine: the per-user action lock, the action threads of  *)
(* the engines, the task flows that mutate one user's ledger, the recharge *)
(* RPC and the cron scheduler's notify/freeze/daily jobs.                  *)
(*                                                                         *)
(* One user is modelled.  Time is counted in ticks of 1/TicksPerSecond     *)
(* seconds; money is counted in units of (rate unit) x (one tick), so the  *)
(* cost of an interval is rate * ticks.  Every db_api call is one atomic   *)
(* transaction; the code between two db_api calls of different threads     *)
(* interleaves freely.                                                     *)
(***************************************************************************)
EXTENDS Integers, FiniteSets, Sequences, TLC

\* ------------------------------------------------------------------ bounds
MaxTime == 5
LedgerTime == 2
RaceTime == 1
MaxPrice == 2
MaxRecharges == 2
RaceRecharges == 1
MaxRechargeValue == 1
MaxCrashes == 1
MaxRollbacks == 1
MaxCons == 2
\* the longest lag, in seconds, between a resource event and its processing
MaxDelay == 11

\* ------------------------------------------------- configuration constants
TicksPerSecond == 2
\* prior_notify_time, in ticks
NotifyWindow == 1
periodic_interval == 1
lock_retry_times == 1
\* default_action_timeout, in ticks
default_action_timeout == 1

Engines == {"e1", "e2"}
ResIds == {"r1"}
ActionIds == {1, 2, 3}
None == "None"
\* a reason text returned by execute
Given == "given"

INIT == "INIT"
FREE == "FREE"
ACTIVE == "ACTIVE"
WARNING == "WARNING"
FREEZE == "FREEZE"

NOTIFY == "notify"
DAILY == "daily"
FREEZE_TASK == "freeze"
NOTASK == "none"

RES_OK == "OK"
RES_ERROR == "ERROR"
RES_RETRY == "RETRY"
RES_CANCEL == "CANCEL"
RES_TIMEOUT == "TIMEOUT"
\* Action.RETURNS
RETURNS == {RES_OK, RES_ERROR, RES_RETRY, RES_CANCEL, RES_TIMEOUT}

VARIABLES
    now,        \* wall clock, in ticks
    alive,      \* engine process is running
    svc,        \* service table: engine -> updated_at (last heartbeat)
    crashes,    \* number of engine crashes so far
    user_lock,  \* user_lock table of the user: set of owning action ids
    act,        \* action table rows joined with the state of their threads
    db_user,    \* user table row
    resources,  \* resource table: id -> [state, rate]
    rc,         \* the recharge RPC in progress
    recharges,  \* recharge table: number of records and their total value
    sjob,       \* apscheduler jobs: type -> the due tick of its job, if any
    dbjob,      \* job table rows: type -> exists
    acc,        \* ledger reference: acc[t] = rate x ticks owed up to tick t
    charged,    \* ledger reference: net cost written by settlements
    rollbacks,  \* reverted flows so far
    firing,     \* job types whose _task has not yet deleted its job row
    cons,       \* consumption table, with the last_bill of the resource rows
    dly         \* the last delayed resource event settled, and its outcome

vars == <<now, alive, svc, crashes, user_lock, act, db_user, resources, rc,
          recharges, sjob, dbjob, acc, charged, rollbacks, firing, cons,
          dly>>

\* ------------------------------------------------------------ arithmetic
Max(a, b) == IF a >= b THEN a ELSE b

CeilDiv(a, b) == 0 - ((0 - a) \div b)

\* utils.format_time: cut the sub-second part of a timestamp
format_time(t) == t - (t % TicksPerSecond)

\* --------------------------------------------------------------- the user
\* User.to_dict followed by User.from_dict: last_bill goes through format_time
from_dict_to_dict(u) == [u EXCEPT !.last_bill = format_time(u.last_bill)]

_notify_or_not(u) == ~(u.balance > NotifyWindow * u.rate)

_settle_account_keep_bill(u, t, extra_cost) ==
    IF u.status \notin {ACTIVE, WARNING}
    THEN u
    ELSE [u EXCEPT !.balance = @ - (u.rate * (t - u.last_bill) + extra_cost)]

_settle_account(u, t, extra_cost) ==
    IF u.status \notin {ACTIVE, WARNING}
    THEN u
    ELSE [u EXCEPT !.balance = @ - (u.rate * (t - u.last_bill) + extra_cost),
                   !.last_bill = t]

_change_rate(u, d_rate, t) ==
    LET old_rate == u.rate
        new_rate == old_rate + d_rate
        s == IF old_rate = 0 /\ new_rate > 0
             THEN [u EXCEPT !.last_bill = t, !.status = ACTIVE]
             ELSE IF d_rate < 0
             THEN IF new_rate = 0 /\ u.balance >= 0
                  THEN [u EXCEPT !.status = FREE]
                  ELSE IF u.status = WARNING /\ ~_notify_or_not(u)
                  THEN [u EXCEPT !.status = ACTIVE]
                  ELSE u
             ELSE u
    IN [s EXCEPT !.rate = new_rate]

\* User.update_rate: settle, then change the rate (the caller stores)
update_rate(u, d_rate, t) == _change_rate(_settle_account(u, t, 0), d_rate, t)

settle_account_any_task(u, task, t) ==
    LET s == _settle_account(u, t, 0)
    IN IF task = NOTIFY /\ _notify_or_not(s)
       THEN [u |-> [s EXCEPT !.status = WARNING], frozen |-> FALSE]
       ELSE IF s.balance <= 0
       THEN [u |-> [s EXCEPT !.rate = 0, !.status = FREEZE], frozen |-> TRUE]
       ELSE [u |-> s, frozen |-> FALSE]

\* User.settle_account: the settled user and whether the freeze branch, which
\* deletes every resource of the user, was taken
settle_account(u, task, t) ==
    LET s == _settle_account(u, t, 0)
    IN IF task = NOTIFY /\ _notify_or_not(s)
       THEN [u |-> [s EXCEPT !.status = WARNING], frozen |-> FALSE]
       ELSE IF task = FREEZE_TASK /\ s.balance <= 0
       THEN [u |-> [s EXCEPT !.rate = 0, !.status = FREEZE], frozen |-> TRUE]
       ELSE [u |-> s, frozen |-> FALSE]

do_recharge_always_free(u, value) ==
    LET b == [u EXCEPT !.balance = @ + value]
    IN IF b.status \in {INIT, FREEZE}
       THEN [b EXCEPT !.status = FREE]
       ELSE IF b.status = WARNING /\ ~_notify_or_not(b)
       THEN [b EXCEPT !.status = ACTIVE]
       ELSE b

\* User.do_recharge: the user it stores
do_recharge(u, value) ==
    LET b == [u EXCEPT !.balance = @ + value]
    IN IF b.status = INIT /\ b.balance > 0
       THEN [b EXCEPT !.status = FREE]
       ELSE IF b.status = FREEZE /\ b.balance > 0
       THEN [b EXCEPT !.status = FREE]
       ELSE IF b.status = WARNING /\ ~_notify_or_not(b)
       THEN [b EXCEPT !.status = ACTIVE]
       ELSE b

\* --------------------------------------------------------- the user lock
\* no action: the owner read from a lock table without a row
NoId == 0

\* session.query(models.UserLock).get(user_id): the row's action_id, or NoId
lock_row(locks) == IF locks = {} THEN NoId ELSE CHOOSE x \in locks : TRUE

db_user_lock_acquire_overwrite(locks, action_id) == {action_id}

\* db_api.user_lock_acquire: the table afterwards; it returns the row's owner
db_user_lock_acquire(locks, action_id) ==
    IF lock_row(locks) = NoId THEN locks \cup {action_id} ELSE locks

db_user_lock_release_any(locks, action_id) ==
    [success |-> locks # {}, locks |-> {}]

\* db_api.user_lock_release: the success flag and the table afterwards
db_user_lock_release(locks, action_id) ==
    IF lock_row(locks) # NoId /\ lock_row(locks) = action_id
    THEN [success |-> TRUE, locks |-> locks \ {lock_row(locks)}]
    ELSE [success |-> FALSE, locks |-> locks]

\* db_api.user_lock_steal: the table afterwards
db_user_lock_steal(locks, action_id) ==
    IF lock_row(locks) # NoId
    THEN (locks \ {lock_row(locks)}) \cup {action_id}
    ELSE locks \cup {action_id}

is_engine_dead_early(services, engine_id, t) ==
    (t - services[engine_id]) >= 2 * periodic_interval * TicksPerSecond

\* lock.is_engine_dead with the default period_time
is_engine_dead(services, engine_id, t) ==
    (t - services[engine_id]) > 2 * periodic_interval * TicksPerSecond

\* ------------------------------------------------------------- resources
NoRes == [state |-> "none", rate |-> 0]

\* the rates of the user's resources that are not deleted
RECURSIVE SumRates(_, _)
SumRates(tbl, ids) ==
    IF ids = {} THEN 0
    ELSE LET r == CHOOSE x \in ids : TRUE
         IN (IF tbl[r].state = "live" THEN tbl[r].rate ELSE 0)
            + SumRates(tbl, ids \ {r})

\* Resource.load_all + do_delete of every resource (resource_delete, soft)
delete_all(tbl) ==
    [r \in ResIds |-> IF tbl[r].state = "live"
                      THEN [tbl[r] EXCEPT !.state = "deleted"]
                      ELSE tbl[r]]

\* the consumption table without a row, and last_bill 0 in every resource row
NoCons ==
    [on |-> FALSE, n |-> 0, bill |-> [r \in ResIds |-> 0], recs |-> {}]

\* Resource._create: last_bill of the new row is the wall clock
_create(c, r, price, t) ==
    IF price = 0 THEN c ELSE [c EXCEPT !.bill[r] = t]

\* Resource._update, then CreateConsumptionTask: a changed rate gives a
\* consumption from last_bill to the wall clock at the old rate, and last_bill
\* becomes the wall clock
_update(c, r, row, price, t) ==
    IF price - row.rate = 0 THEN c
    ELSE [c EXCEPT !.n = @ + 1,
                   !.bill[r] = t,
                   !.recs = @ \cup {[id |-> c.n + 1, res |-> r,
                                     start |-> c.bill[r], end |-> t,
                                     rate |-> row.rate,
                                     cost |-> (t - c.bill[r]) * row.rate]}]

\* Resource._delete, then CreateConsumptionTask: a consumption from last_bill
\* to the wall clock; resource_delete leaves last_bill of the row as it is
_delete(c, r, row, t) ==
    IF row.rate = 0 THEN c
    ELSE [c EXCEPT !.n = @ + 1,
                   !.recs = @ \cup {[id |-> c.n + 1, res |-> r,
                                     start |-> c.bill[r], end |-> t,
                                     rate |-> row.rate,
                                     cost |-> (t - c.bill[r]) * row.rate]}]

\* the consumption table and last_bill after the resource task of a flow
consumption_task(kind, c, r, row, price, t) ==
    IF ~c.on THEN c
    ELSE IF kind = "create" THEN _create(c, r, price, t)
    ELSE IF kind = "update" THEN _update(c, r, row, price, t)
    ELSE _delete(c, r, row, t)

\* the reverts of CreateConsumptionTask and of the resource task: the stored
\* consumption is deleted; a created row is deleted, an updated row is stored
\* from resource_bak, and a deleted row is stored again by the resource object
\* of the flow, whose delta_rate is still set, through Resource._update
consumption_revert(kind, c, r, old, con, bill, t) ==
    IF ~c.on THEN c
    ELSE LET d == [c EXCEPT !.recs = {x \in @ : x.id # con}]
         IN IF kind = "create" THEN [d EXCEPT !.bill[r] = 0]
            ELSE IF kind = "update" THEN [d EXCEPT !.bill[r] = bill]
            ELSE IF old.rate = 0 THEN d
            ELSE [d EXCEPT !.bill[r] = t]

\* ---------------------------------------------------------- the scheduler
JobTypes == {NOTIFY, FREEZE_TASK}

notify_run_date_unclamped(u, t) ==
    t + (CeilDiv(u.balance, u.rate) - NotifyWindow)

\* CronScheduler._add_notify_job: the run date, as the first tick it is due
notify_run_date(u, t) ==
    t + Max(CeilDiv(u.balance, u.rate) - NotifyWindow, 0)

\* CronScheduler._add_freeze_job: the run date, as the first tick it is due
freeze_run_date(u, t) == t + CeilDiv(u.balance, u.rate)

update_jobs_notify_only(u, sj, dj, t) ==
    LET sj1 == [j \in JobTypes |-> {}]
        dj1 == [j \in JobTypes |-> IF sj[j] # {} THEN FALSE ELSE dj[j]]
    IN IF u.rate = 0 \/ u.status # ACTIVE
       THEN [ok |-> TRUE, sjob |-> sj1, dbjob |-> dj1]
       ELSE [ok |-> ~dj1[NOTIFY],
             sjob |-> [sj1 EXCEPT ![NOTIFY] = {notify_run_date(u, t)}],
             dbjob |-> [dj1 EXCEPT ![NOTIFY] = TRUE]]

\* CronScheduler.update_jobs: [ok, sjob, dbjob] after the call.  A job that is
\* in the scheduler is removed with its row; then the job of the user's status
\* is added; job_create fails on a row that is still there.
update_jobs(u, sj, dj, t) ==
    LET sj1 == [j \in JobTypes |-> {}]
        dj1 == [j \in JobTypes |-> IF sj[j] # {} THEN FALSE ELSE dj[j]]
        add == IF u.rate = 0 THEN None
               ELSE IF u.status = ACTIVE THEN NOTIFY
               ELSE IF u.status = WARNING THEN FREEZE_TASK
               ELSE None
        due == IF add = NOTIFY THEN notify_run_date(u, t)
               ELSE freeze_run_date(u, t)
    IN IF add = None
       THEN [ok |-> TRUE, sjob |-> sj1, dbjob |-> dj1]
       ELSE [ok |-> ~dj1[add],
             sjob |-> [sj1 EXCEPT ![add] = {due}],
             dbjob |-> [dj1 EXCEPT ![add] = TRUE]]

\* CronScheduler.delete_jobs: [sjob, dbjob] after the call
delete_jobs(sj, dj) ==
    [sjob |-> [j \in JobTypes |-> {}],
     dbjob |-> [j \in JobTypes |-> IF sj[j] # {} THEN FALSE ELSE dj[j]]]

\* ------------------------------------------------------------ the actions
NoUser == [balance |-> 0, rate |-> 0, status |-> "NONE", last_bill |-> 0]

\* Action.timeout is None
NoTimeout == 0 - 1

NoAction ==
    [kind |-> "none", res |-> None, price |-> 0, task |-> NOTASK,
     status |-> "NONE", owner |-> None,
     pc |-> "idle", worker |-> None, retries |-> 0, seen |-> NoId,
     locked |-> FALSE, result |-> None, reason |-> None,
     start |-> 0, timeout |-> NoTimeout, control |-> None,
     bak |-> NoUser, obj |-> NoUser, old |-> NoRes, con |-> 0, bill |-> 0]

NoRecharge == [pc |-> "idle", user |-> NoUser, value |-> 0]

\* db_api.user_create: a new user is INIT with no balance and no rate
InitUser == [balance |-> 0, rate |-> 0, status |-> INIT, last_bill |-> 0]

\* ----------------------------------------------- delayed resource events
\* seconds an event may lag behind its processing without compensation
ALLOW_DELAY_TIME == 10

\* properties.get('created_at' / 'updated_at' / 'deleted_at') is None
NoStamp == 0 - 1

NoDelay ==
    [op |-> "none", before |-> NoUser, after |-> NoUser, d_rate |-> 0,
     stamp |-> NoStamp, at |-> 0, settled |-> FALSE, raised |-> FALSE,
     delayed_cost |-> 0]

\* User.update_with_resource at time t for an event stamped stamp: the extra
\* cost is computed for any lag, the settlement runs, and the call
\* self._change_rate(context, d_rate) then raises (TypeError: _change_rate
\* takes d_rate only) before the store
update_with_resource(u, d_rate, stamp, t) ==
    LET extra_cost == IF stamp = NoStamp THEN 0 ELSE d_rate * (t - stamp)
    IN [u |-> _settle_account(u, t, extra_cost), settled |-> TRUE,
        raised |-> TRUE]

\* User.do_create_resource at time t: with a created_at the comparison with
\* the bare name ALLOW_DELAY_TIME raises (NameError: it is a class attribute)
\* before the settlement
do_create_resource(u, delta_rate, stamp, t) ==
    IF delta_rate = 0
    THEN [u |-> u, settled |-> FALSE, raised |-> FALSE]
    ELSE IF stamp # NoStamp
    THEN [u |-> u, settled |-> FALSE, raised |-> TRUE]
    ELSE [u |-> _change_rate(_settle_account(u, t, 0), delta_rate, t),
          settled |-> TRUE, raised |-> FALSE]

\* Resource._create of resources/base.py at time t: the last_bill and the
\* delayed_cost of the new resource
Resource_create(rate, stamp, t) ==
    IF rate = 0
    THEN [last_bill |-> NoStamp, delayed_cost |-> 0]
    ELSE IF stamp # NoStamp /\ t - stamp > ALLOW_DELAY_TIME
    THEN [last_bill |-> stamp, delayed_cost |-> rate * (t - stamp)]
    ELSE [last_bill |-> t, delayed_cost |-> 0]

InitBase ==
    /\ now = 0
    /\ alive = [e \in Engines |-> TRUE]
    /\ svc = [e \in Engines |-> 0]
    /\ crashes = 0
    /\ user_lock = {}
    /\ act = [a \in ActionIds |-> NoAction]
    /\ db_user = InitUser
    /\ resources = [r \in ResIds |-> NoRes]
    /\ rc = NoRecharge
    /\ recharges = [n |-> 0, total |-> 0]
    /\ sjob = [j \in JobTypes |-> {}]
    /\ dbjob = [j \in JobTypes |-> FALSE]
    /\ acc = [t \in 0..MaxTime |-> 0]
    /\ charged = 0
    /\ rollbacks = 0
    /\ firing = {}
    /\ dly = NoDelay

\* the consumption table is written and never read by the engine: it is left
\* out (on is FALSE) of the scenarios that do not examine it
Init == InitBase /\ cons = NoCons

ConsInit == InitBase /\ cons = [NoCons EXCEPT !.on = TRUE]

\* ----------------------------------------------------- time and engines
HeartbeatTicks == periodic_interval * TicksPerSecond

charging(u) == IF u.status \in {ACTIVE, WARNING} THEN u.rate ELSE 0

\* d ticks pass.  The periodic timer of every running engine calls
\* service_manage_report (db_api.service_update) every periodic_interval.
Tick(d) ==
    /\ now + d <= MaxTime
    /\ now' = now + d
    /\ svc' = [e \in Engines |->
                 IF alive[e]
                 THEN now' - ((now' - svc[e]) % HeartbeatTicks)
                 ELSE svc[e]]
    /\ acc' = [t \in 0..MaxTime |->
                 IF t > now /\ t <= now'
                 THEN acc[now] + charging(db_user) * (t - now)
                 ELSE acc[t]]
    /\ UNCHANGED <<dly, firing, cons,
                   alive, crashes, user_lock, act, db_user, resources, rc,
                   recharges, sjob, dbjob, charged, rollbacks>>

\* d ticks pass while db_api.service_update of engine e raises, which
\* service_manage_report logs: the heartbeat of e is not written
TickMissed(d, e) ==
    /\ now + d <= MaxTime
    /\ alive[e]
    /\ now' = now + d
    /\ svc' = [x \in Engines |->
                 IF alive[x] /\ x # e
                 THEN now' - ((now' - svc[x]) % HeartbeatTicks)
                 ELSE svc[x]]
    /\ acc' = [t \in 0..MaxTime |->
                 IF t > now /\ t <= now'
                 THEN acc[now] + charging(db_user) * (t - now)
                 ELSE acc[t]]
    /\ UNCHANGED <<dly, firing, cons, alive, crashes, user_lock, act, db_user,
                   resources, rc, recharges, sjob, dbjob, charged,
                   rollbacks>>

\* an engine process dies; its threads never run again
Crash(e) ==
    /\ alive[e]
    /\ crashes < MaxCrashes
    /\ alive' = [alive EXCEPT ![e] = FALSE]
    /\ crashes' = crashes + 1
    /\ UNCHANGED <<dly, firing, cons,
                   now, svc, user_lock, act, db_user, resources, rc,
                   recharges, sjob, dbjob, acc, charged,
                   rollbacks>>

\* ------------------------------------------------------ creating actions
FreeIds == {a \in ActionIds : act[a].kind = "none"}

NextId == CHOOSE a \in FreeIds : \A b \in FreeIds : a <= b

\* EngineService.resource_create / resource_update / resource_delete:
\* Action.create with status READY, then dispatcher.start_action
ResourceRequest(kind, r, p) ==
    /\ FreeIds # {}
    /\ \/ kind = "create" /\ resources[r].state = "none"
       \/ kind = "update" /\ resources[r].state = "live"
                          /\ resources[r].rate # p
       \/ kind = "delete" /\ resources[r].state = "live" /\ p = 0
    /\ act' = [act EXCEPT ![NextId] =
                 [NoAction EXCEPT !.kind = kind, !.res = r, !.price = p,
                                  !.status = "READY"]]
    /\ UNCHANGED <<dly, firing, cons,
                   now, alive, svc, crashes, user_lock, db_user, resources,
                   rc, recharges, sjob, dbjob, acc, charged,
                   rollbacks>>

\* EngineService.resource_update with properties that give the resource the
\* price it already has
TouchRequest(r) ==
    /\ FreeIds # {}
    /\ resources[r].state = "live"
    /\ act' = [act EXCEPT ![NextId] =
                 [NoAction EXCEPT !.kind = "update", !.res = r,
                                  !.price = resources[r].rate,
                                  !.status = "READY"]]
    /\ UNCHANGED <<dly, now, alive, svc, crashes, user_lock, db_user, resources,
                   rc, recharges, sjob, dbjob, acc, charged, rollbacks,
                   firing, cons>>

action_acquire_any_status(row, owner, timestamp) ==
    IF row.owner # None /\ row.owner # owner THEN row
    ELSE [row EXCEPT !.owner = owner,
                     !.start = IF row.timeout = NoTimeout THEN 0 ELSE timestamp,
                     !.status = "RUNNING"]

\* db_api.action_acquire: the row afterwards (unchanged when it returns None);
\* start_time is read by is_timeout only, for an action that has a timeout
action_acquire(row, owner, timestamp) ==
    IF row.owner # None /\ row.owner # owner THEN row
    ELSE IF row.status # "READY" THEN row
    ELSE [row EXCEPT !.owner = owner,
                     !.start = IF row.timeout = NoTimeout THEN 0 ELSE timestamp,
                     !.status = "RUNNING"]

\* the thread ThreadGroupManager.start_action starts for an acquired action:
\* ActionProc loads the action and calls UserAction.execute
started(row, e) ==
    [row EXCEPT !.pc = "acquire", !.worker = e,
                !.retries = lock_retry_times]

\* ThreadGroupManager.start_action(worker_id, action_id)
StartAction(e, a) ==
    /\ alive[e]
    /\ act[a].kind # "none"
    /\ LET row == action_acquire(act[a], e, now)
       IN /\ row # act[a]
          /\ act' = [act EXCEPT ![a] = started(row, e)]
    /\ UNCHANGED <<dly, firing, cons,
                   now, alive, svc, crashes, user_lock, db_user, resources,
                   rc, recharges, sjob, dbjob, acc, charged,
                   rollbacks>>

\* db_api.action_acquire_first_ready: the action it hands out, NoId if none
first_ready(tbl) ==
    LET ready == {a \in ActionIds : /\ tbl[a].kind # "none"
                                    /\ tbl[a].status = "READY"
                                    /\ tbl[a].owner = None}
    IN IF ready = {} THEN NoId
       ELSE CHOOSE a \in ready : \A b \in ready : a <= b

\* ThreadGroupManager.start_action(worker_id) with no action_id
StartFirstReady(e) ==
    /\ alive[e]
    /\ first_ready(act) # NoId
    /\ LET a == first_ready(act)
       IN act' = [act EXCEPT ![a] =
                    started([@ EXCEPT !.owner = e,
                                      !.start =
                                          IF act[a].timeout = NoTimeout
                                          THEN 0 ELSE now,
                                      !.status = "RUNNING"], e)]
    /\ UNCHANGED <<dly, firing, cons, now, alive, svc, crashes, user_lock,
                   db_user, resources, rc, recharges, sjob, dbjob, acc,
                   charged, rollbacks>>

\* EngineService.settle_account on engine e: Action.create, then
\* TG.start_action(self.engine_id, action_id)
settle_request(e, task) ==
    [act EXCEPT ![NextId] =
        started(action_acquire([NoAction EXCEPT !.kind = "settle",
                                                !.task = task,
                                                !.status = "READY"],
                                e, now), e)]

\* the same request for an action created with a timeout
timed_request(e, task, timeout) ==
    [act EXCEPT ![NextId] =
        started(action_acquire([NoAction EXCEPT !.kind = "settle",
                                                !.task = task,
                                                !.timeout = timeout,
                                                !.status = "READY"],
                                e, now), e)]

TimedRequest(e, task, timeout) ==
    /\ alive[e]
    /\ FreeIds # {}
    /\ act' = timed_request(e, task, timeout)
    /\ UNCHANGED <<dly, firing, cons, now, alive, svc, crashes, user_lock,
                   db_user, resources, rc, recharges, sjob, dbjob, acc,
                   charged, rollbacks>>

SIG_CANCEL == "CANCEL"

\* Action.signal(cmd) for the commands of Action.COMMANDS: the row afterwards
signal(row, cmd) ==
    IF /\ cmd = SIG_CANCEL
       /\ row.status \in {"INIT", "WAITING", "READY", "RUNNING"}
    THEN [row EXCEPT !.control = cmd]
    ELSE row

\* ThreadGroupManager.cancel_action(action_id)
CancelAction(a) ==
    /\ act[a].kind # "none"
    /\ signal(act[a], SIG_CANCEL) # act[a]
    /\ act' = [act EXCEPT ![a] = signal(@, SIG_CANCEL)]
    /\ UNCHANGED <<dly, firing, cons, now, alive, svc, crashes, user_lock,
                   db_user, resources, rc, recharges, sjob, dbjob, acc,
                   charged, rollbacks>>

\* Action.is_timeout at time t
is_timeout(row, t) == t - row.start > row.timeout

\* Action._check_signal at time t: the timeout is checked first, then the
\* control column is read
_check_signal(row, t) ==
    IF row.timeout # NoTimeout /\ is_timeout(row, t) THEN RES_TIMEOUT
    ELSE row.control

\* the cron job of the user fires (CronScheduler._task with task daily), or a
\* client calls settle_account with no task
SettleRequest(e, task) ==
    /\ alive[e]
    /\ FreeIds # {}
    /\ task \in {DAILY, NOTASK}
    /\ act' = settle_request(e, task)
    /\ UNCHANGED <<dly, firing, cons,
                   now, alive, svc, crashes, user_lock, db_user, resources,
                   rc, recharges, sjob, dbjob, acc, charged,
                   rollbacks>>

\* a date job is due: the scheduler drops it and runs CronScheduler._task:
\* the settle_account RPC, which returns once the action thread is started,
\* then db_api.job_delete of the job's row
FireJob(j, e) ==
    /\ alive[e]
    /\ FreeIds # {}
    /\ \E due \in sjob[j] : due <= now
    /\ sjob' = [sjob EXCEPT ![j] = {}]
    /\ dbjob' = [dbjob EXCEPT ![j] = FALSE]
    /\ act' = settle_request(e, j)
    /\ UNCHANGED <<dly, firing, cons,
                   now, alive, svc, crashes, user_lock, db_user, resources,
                   rc, recharges, acc, charged, rollbacks>>

\* a date job is due: the scheduler drops it and starts CronScheduler._task,
\* which makes the settle_account RPC; the RPC returns once the action thread
\* is started
FireJobCall(j, e) ==
    /\ alive[e]
    /\ FreeIds # {}
    /\ j \notin firing
    /\ \E due \in sjob[j] : due <= now
    /\ sjob' = [sjob EXCEPT ![j] = {}]
    /\ act' = settle_request(e, j)
    /\ firing' = firing \cup {j}
    /\ UNCHANGED <<dly, cons, now, alive, svc, crashes, user_lock, db_user,
                   resources,
                   rc, recharges, dbjob, acc, charged, rollbacks>>

\* the rest of CronScheduler._task: db_api.job_delete of the row with the id
\* of the job that fired
FireJobDelete(j) ==
    /\ j \in firing
    /\ dbjob' = [dbjob EXCEPT ![j] = FALSE]
    /\ firing' = firing \ {j}
    /\ UNCHANGED <<dly, cons, now, alive, svc, crashes, user_lock, act, db_user,
                   resources, rc, recharges, sjob, acc, charged, rollbacks>>

\* --------------------------------------------- lock.user_lock_acquire
running(a) == act[a].worker # None /\ alive[act[a].worker]

Acquire_unchecked(a) ==
    /\ running(a)
    /\ act[a].pc = "acquire"
    /\ user_lock' = db_user_lock_acquire(user_lock, a)
    /\ act' = [act EXCEPT ![a].pc = "flow1",
                          ![a].locked = (lock_row(user_lock') = a)]
    /\ UNCHANGED <<dly, firing, cons,
                   now, alive, svc, crashes, db_user, resources, rc,
                   recharges, sjob, dbjob, acc, charged,
                   rollbacks>>

\* one db_api.user_lock_acquire attempt of the loop (the first attempt and
\* lock_retry_times further ones)
Acquire(a) ==
    /\ running(a)
    /\ act[a].pc = "acquire"
    /\ user_lock' = db_user_lock_acquire(user_lock, a)
    /\ LET owner == lock_row(user_lock')
       IN act' = [act EXCEPT ![a] =
            IF owner = a
            THEN [@ EXCEPT !.pc = "flow1", !.locked = TRUE]
            ELSE IF @.retries > 0
            THEN [@ EXCEPT !.retries = @ - 1, !.seen = owner]
            ELSE [@ EXCEPT !.pc = "check", !.seen = owner]]
    /\ UNCHANGED <<dly, firing, cons,
                   now, alive, svc, crashes, db_user, resources, rc,
                   recharges, sjob, dbjob, acc, charged,
                   rollbacks>>

\* action_get(owner) and the test of the owner's engine
Check(a) ==
    /\ running(a)
    /\ act[a].pc = "check"
    /\ LET action == act[act[a].seen]
       IN act' = [act EXCEPT ![a] =
            IF /\ action.owner # None
               /\ action.owner # act[a].worker
               /\ is_engine_dead(svc, action.owner, now)
            THEN [@ EXCEPT !.pc = "markfail"]
            ELSE [@ EXCEPT !.pc = "release", !.result = RES_ERROR,
                           !.reason = Given]]
    /\ UNCHANGED <<dly, firing, cons,
                   now, alive, svc, crashes, user_lock, db_user, resources,
                   rc, recharges, sjob, dbjob, acc, charged,
                   rollbacks>>

\* db_api.action_mark_failed without a reason: the row afterwards
action_mark_failed(row) ==
    [row EXCEPT !.status = "FAILED", !.owner = None, !.reason = "failed"]

\* db_api.action_mark_failed with the reason set_status passes
action_mark_failed_for(row, reason) ==
    [action_mark_failed(row) EXCEPT !.reason = reason]

\* db_api.action_mark_succeeded: the row afterwards
action_mark_succeeded(row) ==
    [row EXCEPT !.status = "SUCCEEDED", !.owner = None,
                !.reason = "completed"]

\* db_api.action_mark_cancelled: the row afterwards
action_mark_cancelled(row) ==
    [row EXCEPT !.status = "CANCELLED", !.owner = None, !.reason = "failed"]

\* db_api.action_abandon: the row afterwards
action_abandon(row) ==
    [row EXCEPT !.status = "READY", !.owner = None, !.reason = "abandoned"]

set_status_retry_keeps_owner(row, result, reason) ==
    IF result = RES_OK THEN action_mark_succeeded(row)
    ELSE IF result \in {RES_ERROR, RES_TIMEOUT}
    THEN action_mark_failed_for(row, IF reason # None THEN reason ELSE result)
    ELSE IF result = RES_CANCEL THEN action_mark_cancelled(row)
    ELSE [row EXCEPT !.status = "READY"]

\* Action.set_status(result, reason): the row afterwards
set_status(row, result, reason) ==
    IF result = RES_OK THEN action_mark_succeeded(row)
    ELSE IF result = RES_ERROR
    THEN action_mark_failed_for(row, IF reason # None THEN reason
                                                      ELSE "ERROR")
    ELSE IF result = RES_TIMEOUT
    THEN action_mark_failed_for(row, IF reason # None THEN reason
                                                      ELSE "TIMEOUT")
    ELSE IF result = RES_CANCEL THEN action_mark_cancelled(row)
    ELSE action_abandon(row)

\* db_api.action_mark_failed of the action seen owning the lock
MarkFail(a) ==
    /\ running(a)
    /\ act[a].pc = "markfail"
    /\ act' = [act EXCEPT ![act[a].seen] = action_mark_failed(@),
                          ![a].pc = "steal"]
    /\ UNCHANGED <<dly, firing, cons,
                   now, alive, svc, crashes, user_lock, db_user, resources,
                   rc, recharges, sjob, dbjob, acc, charged,
                   rollbacks>>

\* db_api.user_lock_steal, after which user_lock_acquire returns True
Steal(a) ==
    /\ running(a)
    /\ act[a].pc = "steal"
    /\ user_lock' = db_user_lock_steal(user_lock, a)
    /\ act' = [act EXCEPT ![a].pc = "flow1", ![a].locked = TRUE]
    /\ UNCHANGED <<dly, firing, cons,
                   now, alive, svc, crashes, db_user, resources, rc,
                   recharges, sjob, dbjob, acc, charged,
                   rollbacks>>

Release_without_finally(a) ==
    /\ running(a)
    /\ act[a].pc = "release"
    /\ user_lock' = user_lock
    /\ act' = [act EXCEPT ![a].pc = "set_status", ![a].locked = FALSE]
    /\ UNCHANGED <<dly, firing, cons,
                   now, alive, svc, crashes, db_user, resources, rc,
                   recharges, sjob, dbjob, acc, charged,
                   rollbacks>>

\* the finally clause of UserAction.execute: user_lock_release
Release(a) ==
    /\ running(a)
    /\ act[a].pc = "release"
    /\ user_lock' = db_user_lock_release(user_lock, a).locks
    /\ act' = [act EXCEPT ![a].pc = "set_status", ![a].locked = FALSE]
    /\ UNCHANGED <<dly, firing, cons,
                   now, alive, svc, crashes, db_user, resources, rc,
                   recharges, sjob, dbjob, acc, charged,
                   rollbacks>>

\* ActionProc for an action whose execute returns result res with the lock
\* of the user held and the user untouched
ExecuteReturns(a, res, reason) ==
    /\ running(a)
    /\ act[a].pc = "flow1"
    /\ act' = [act EXCEPT ![a].pc = "release", ![a].result = res,
                          ![a].reason = reason]
    /\ UNCHANGED <<dly, firing, cons, now, alive, svc, crashes, user_lock,
                   db_user, resources, rc, recharges, sjob, dbjob, acc,
                   charged, rollbacks>>

\* the finally clause of ActionProc: Action.set_status(result); with purge
\* the finished action is deleted at once (Action.delete)
SetStatus(a, purge) ==
    /\ running(a)
    /\ act[a].pc = "set_status"
    /\ act' = [act EXCEPT ![a] =
                 IF purge THEN NoAction ELSE
                 [set_status(@, @.result, @.reason)
                  EXCEPT !.pc = IF act[a].result = RES_RETRY THEN "idle"
                                ELSE "done",
                         !.worker = None, !.retries = 0, !.start = 0,
                         !.seen = NoId, !.bak = NoUser, !.obj = NoUser,
                         !.old = NoRes, !.con = 0, !.bill = 0]]
    /\ UNCHANGED <<dly, firing, cons,
                   now, alive, svc, crashes, user_lock, db_user, resources,
                   rc, recharges, sjob, dbjob, acc, charged,
                   rollbacks>>

\* ------------------------------------------------------------ the flows
Live(r, rate) == [state |-> "live", rate |-> rate]

\* Resource.load of do_update_resource / do_delete_resource finds no row, or
\* resource_create of CreateResourceTask hits an existing id
resource_error(kind, tbl, r) ==
    \/ kind = "create" /\ tbl[r].state # "none"
    \/ kind \in {"update", "delete"} /\ tbl[r].state # "live"

\* CreateResourceTask / UpdateResourceTask / DeleteResourceTask.execute: the
\* resource row afterwards
resource_task(kind, row, price) ==
    IF kind = "create" THEN Live(row, price)
    ELSE IF kind = "update" THEN [row EXCEPT !.rate = price]
    ELSE [row EXCEPT !.state = "deleted"]

\* the revert of the same tasks: the resource row afterwards
resource_revert(kind, old) ==
    IF kind = "create" THEN NoRes ELSE old

\* resource.delta_rate as Resource._create / UpdateResourceTask / _delete set it
delta_rate(kind, row, price) ==
    IF kind = "create" THEN price
    ELSE IF kind = "update" THEN price - row.rate
    ELSE 0 - row.rate

\* the flow up to the store of the user: the resource task (with
\* CreateConsumptionTask), LoadUserTask, then UpdateUserRateTask (resource
\* flows) or SettleAccountTask (settle flow); a freeze flow ends here
Flow1(a) ==
    /\ running(a)
    /\ act[a].pc = "flow1"
    /\ LET k == act[a].kind
           r == act[a].res
           d == delta_rate(k, resources[r], act[a].price)
           res == IF k = "settle"
                  THEN settle_account(db_user, act[a].task, now)
                  ELSE [u |-> update_rate(db_user, d, now), frozen |-> FALSE]
       IN IF k # "settle" /\ resource_error(k, resources, r)
          THEN /\ act' = [act EXCEPT ![a].pc = "release",
                                     ![a].result = RES_ERROR,
                                     ![a].reason = Given]
               /\ UNCHANGED <<db_user, resources, charged, cons>>
          ELSE /\ db_user' = res.u
               /\ charged' = charged + (db_user.balance - res.u.balance)
               /\ resources' =
                    IF k = "settle"
                    THEN (IF res.frozen THEN delete_all(resources)
                          ELSE resources)
                    ELSE [resources EXCEPT
                            ![r] = resource_task(k, @, act[a].price)]
               /\ cons' = IF k = "settle" THEN cons
                          ELSE consumption_task(k, cons, r, resources[r],
                                                act[a].price, now)
               /\ act' = [act EXCEPT ![a] =
                    IF @.task = FREEZE_TASK
                    THEN [@ EXCEPT !.pc = "release", !.result = RES_OK,
                                   !.reason = Given]
                    ELSE [@ EXCEPT
                            !.old = IF k = "settle" THEN NoRes
                                    ELSE resources[r],
                            !.con = IF cons'.n # cons.n THEN cons'.n ELSE 0,
                            !.bill = IF k = "settle" THEN 0 ELSE cons.bill[r],
                            !.bak = db_user, !.obj = res.u,
                            !.pc = "flow2"]]
    /\ UNCHANGED <<dly, firing, now, alive, svc, crashes, user_lock, rc,
                   recharges,
                   sjob, dbjob, acc, rollbacks>>

\* UpdateUserJobsTask.execute: the update_jobs call to the scheduler.  When it
\* fails (timeout is the MessagingTimeout case) the flow reverts: the user is
\* restored from user_bak and the resource task is reverted.
Flow2(a, timeout) ==
    /\ running(a)
    /\ act[a].pc = "flow2"
    /\ LET uj == update_jobs(from_dict_to_dict(act[a].obj), sjob, dbjob, now)
       IN IF ~timeout /\ uj.ok
          THEN /\ sjob' = uj.sjob
               /\ dbjob' = uj.dbjob
               /\ act' = [act EXCEPT ![a].pc = "release",
                                     ![a].result = RES_OK,
                                     ![a].reason = Given]
               /\ UNCHANGED <<db_user, resources, charged, rollbacks, cons>>
          ELSE /\ rollbacks < MaxRollbacks
               /\ rollbacks' = rollbacks + 1
               /\ sjob' = IF timeout THEN sjob ELSE uj.sjob
               /\ dbjob' = IF timeout THEN dbjob ELSE uj.dbjob
               /\ db_user' = from_dict_to_dict(act[a].bak)
               /\ charged' = charged
                             - (act[a].bak.balance - act[a].obj.balance)
               /\ resources' =
                    IF act[a].kind = "settle" THEN resources
                    ELSE [resources EXCEPT ![act[a].res] =
                            resource_revert(act[a].kind, act[a].old)]
               /\ cons' =
                    IF act[a].kind = "settle" THEN cons
                    ELSE consumption_revert(act[a].kind, cons, act[a].res,
                                            act[a].old, act[a].con,
                                            act[a].bill, now)
               /\ act' = [act EXCEPT ![a].pc = "release",
                                     ![a].result = RES_ERROR,
                                     ![a].reason = Given]
    /\ UNCHANGED <<dly, firing, now, alive, svc, crashes, user_lock, rc,
                   recharges,
                   acc>>

\* ------------------------------------------- EngineService.user_recharge
\* User.load
RechargeLoad(value) ==
    /\ rc.pc = "idle"
    /\ recharges.n < MaxRecharges
    /\ rc' = [pc |-> "store", user |-> db_user, value |-> value]
    /\ UNCHANGED <<dly, firing, cons,
                   now, alive, svc, crashes, user_lock, act, db_user,
                   resources, recharges, sjob, dbjob, acc, charged,
                   rollbacks>>

\* User.do_recharge: the new balance and status, store, recharge_create
RechargeStore ==
    /\ rc.pc = "store"
    /\ db_user' = do_recharge(rc.user, rc.value)
    /\ recharges' = [n |-> recharges.n + 1,
                     total |-> recharges.total + rc.value]
    /\ rc' = [rc EXCEPT !.pc = "jobs", !.user = db_user']
    /\ UNCHANGED <<dly, firing, cons,
                   now, alive, svc, crashes, user_lock, act, resources,
                   sjob, dbjob, acc, charged,
                   rollbacks>>

\* bilean_scheduler.notify(UPDATE_JOBS, user=user.to_dict())
RechargeJobs ==
    /\ rc.pc = "jobs"
    /\ LET uj == update_jobs(from_dict_to_dict(rc.user), sjob, dbjob, now)
       IN /\ sjob' = uj.sjob
          /\ dbjob' = uj.dbjob
    /\ rc' = NoRecharge
    /\ UNCHANGED <<dly, firing, cons,
                   now, alive, svc, crashes, user_lock, act, db_user,
                   resources, recharges, acc, charged,
                   rollbacks>>

\* --------------------------------------------- EngineService.user_delete
DELETED == "DELETED"

\* db_api.user_delete: the rows of the user's resources are deleted
purge_resources(tbl) == [r \in ResIds |-> NoRes]

\* EngineService.user_delete: a user that is not ACTIVE or WARNING is deleted
\* with its resources, then the scheduler is told to delete its jobs
UserDelete ==
    /\ db_user.status \notin {ACTIVE, WARNING, DELETED}
    /\ db_user' = [db_user EXCEPT !.status = DELETED]
    /\ resources' = purge_resources(resources)
    /\ sjob' = delete_jobs(sjob, dbjob).sjob
    /\ dbjob' = delete_jobs(sjob, dbjob).dbjob
    /\ UNCHANGED <<dly, cons, now, alive, svc, crashes, user_lock, act, rc,
                   recharges,
                   acc, charged, rollbacks, firing>>

\* --------------------------------------------------- the specifications
Prices == 1..MaxPrice

\* the engine that serves the requests of the ledger scenario
LedgerEngine == "e1"

\* no action of the user is queued or in flight
Idle == \A a \in ActionIds : act[a].kind = "none"

\* nothing is in progress on the user
Quiet == Idle /\ rc.pc = "idle"

\* the ledger of the user, one operation at a time: a request, a job firing
\* or a recharge arrives when the one before is finished, and time passes
\* between them
Next ==
    \/ \E d \in 1..LedgerTime : Quiet /\ Tick(d) /\ now' <= LedgerTime
    \/ \E r \in ResIds, p \in Prices :
          Quiet /\ ResourceRequest("create", r, p)
    \/ \E r \in ResIds, p \in Prices :
          Quiet /\ ResourceRequest("update", r, p)
    \/ \E r \in ResIds : Quiet /\ ResourceRequest("delete", r, 0)
    \/ \E a \in ActionIds : StartAction(LedgerEngine, a)
    \/ \E task \in {DAILY, NOTASK} :
          Quiet /\ SettleRequest(LedgerEngine, task)
    \/ \E j \in JobTypes : Quiet /\ FireJob(j, LedgerEngine)
    \/ \E a \in ActionIds : Acquire(a)
    \/ \E a \in ActionIds : Flow1(a)
    \/ \E a \in ActionIds, timeout \in BOOLEAN : Flow2(a, timeout)
    \/ \E a \in ActionIds : Release(a)
    \/ \E a \in ActionIds : SetStatus(a, TRUE)
    \/ \E value \in 1..MaxRechargeValue : Quiet /\ RechargeLoad(value)
    \/ RechargeStore
    \/ RechargeJobs

Spec == Init /\ [][Next]_vars

\* the ledger with recharges that overlap the actions: a recharge arrives at
\* any moment, also while an action is in flight
RaceNext ==
    \/ \E d \in 1..RaceTime : Quiet /\ Tick(d) /\ now' <= RaceTime
    \/ \E r \in ResIds, p \in Prices :
          Idle /\ ResourceRequest("create", r, p)
    \/ \E r \in ResIds, p \in Prices :
          Idle /\ ResourceRequest("update", r, p)
    \/ \E r \in ResIds : Idle /\ ResourceRequest("delete", r, 0)
    \/ \E a \in ActionIds : StartAction(LedgerEngine, a)
    \/ Idle /\ SettleRequest(LedgerEngine, DAILY)
    \/ \E j \in JobTypes : Idle /\ FireJob(j, LedgerEngine)
    \/ \E a \in ActionIds : Acquire(a)
    \/ \E a \in ActionIds : Flow1(a)
    \/ \E a \in ActionIds : Flow2(a, FALSE)
    \/ \E a \in ActionIds : Release(a)
    \/ \E a \in ActionIds : SetStatus(a, TRUE)
    \/ \E value \in 1..MaxRechargeValue :
          recharges.n < RaceRecharges /\ RechargeLoad(value)
    \/ RechargeStore
    \/ RechargeJobs

RaceSpec == Init /\ [][RaceNext]_vars

\* the way of a user to FREEZE: resources are created and never changed, the
\* user is recharged only before it is charged, the calls to the scheduler
\* get through, due jobs fire, started threads run and time passes
LiveTick == \E d \in 1..LedgerTime : Quiet /\ Tick(d) /\ now' <= LedgerTime

LiveFire == \E j \in JobTypes : Quiet /\ FireJob(j, LedgerEngine)

LiveNext ==
    \/ LiveTick
    \/ \E r \in ResIds, p \in Prices :
          Quiet /\ ResourceRequest("create", r, p)
    \/ \E a \in ActionIds : StartAction(LedgerEngine, a)
    \/ LiveFire
    \/ \E a \in ActionIds : Acquire(a)
    \/ \E a \in ActionIds : Flow1(a)
    \/ \E a \in ActionIds : Flow2(a, FALSE)
    \/ \E a \in ActionIds : Release(a)
    \/ \E a \in ActionIds : SetStatus(a, TRUE)
    \/ \E value \in 1..MaxRechargeValue :
          /\ Quiet
          /\ db_user.status \notin {ACTIVE, WARNING}
          /\ RechargeLoad(value)
    \/ RechargeStore
    \/ RechargeJobs

LiveSpec ==
    /\ Init
    /\ [][LiveNext]_vars
    /\ WF_vars(LiveTick)
    /\ WF_vars(LiveFire)
    /\ \A a \in ActionIds :
         /\ WF_vars(StartAction(LedgerEngine, a))
         /\ WF_vars(Acquire(a))
         /\ WF_vars(Flow1(a))
         /\ WF_vars(Flow2(a, FALSE))
         /\ WF_vars(Release(a))
         /\ WF_vars(SetStatus(a, TRUE))
    /\ WF_vars(RechargeStore)
    /\ WF_vars(RechargeJobs)

\* settle requests from clients contending for the lock of the user, on
\* engines that may die
LockNext ==
    \/ \E d \in 1..MaxTime : Tick(d)
    \/ \E e \in Engines : Crash(e)
    \/ \E e \in Engines : SettleRequest(e, NOTASK)
    \/ \E a \in ActionIds : Acquire(a)
    \/ \E a \in ActionIds : Check(a)
    \/ \E a \in ActionIds : MarkFail(a)
    \/ \E a \in ActionIds : Steal(a)
    \/ \E a \in ActionIds : Flow1(a)
    \/ \E a \in ActionIds, timeout \in BOOLEAN : Flow2(a, timeout)
    \/ \E a \in ActionIds : Release(a)
    \/ \E a \in ActionIds : SetStatus(a, FALSE)

LockSpec == Init /\ [][LockNext]_vars

\* the ledger of the user under clients that also send recharges with a
\* negative value
DebitNext ==
    \/ Next
    \/ \E value \in 1..MaxRechargeValue : Quiet /\ RechargeLoad(0 - value)

DebitSpec == Init /\ [][DebitNext]_vars

\* resource and settle actions of two engines contending for the lock of the
\* user at one instant
\* at most two actions are in flight
Pair == Cardinality(FreeIds) >= Cardinality(ActionIds) - 1

ContendNext ==
    \/ \E r \in ResIds, p \in Prices :
          Pair /\ ResourceRequest("create", r, p)
    \/ \E r \in ResIds : Pair /\ ResourceRequest("delete", r, 0)
    \/ \E e \in Engines, a \in ActionIds : StartAction(e, a)
    \/ \E e \in Engines : Pair /\ SettleRequest(e, DAILY)
    \/ \E a \in ActionIds : Acquire(a)
    \/ \E a \in ActionIds : Check(a)
    \/ \E a \in ActionIds : Flow1(a)
    \/ \E a \in ActionIds, timeout \in BOOLEAN : Flow2(a, timeout)
    \/ \E a \in ActionIds : Release(a)
    \/ \E a \in ActionIds : SetStatus(a, TRUE)

ContendSpec == Init /\ [][ContendNext]_vars

\* lock contention where started threads keep running until their engine
\* dies, the calls to the scheduler get through and the clock jumps past the
\* heartbeat threshold in one step
LockLiveNext ==
    \/ Tick(MaxTime)
    \/ \E e \in Engines : Crash(e)
    \/ \E e \in Engines : SettleRequest(e, NOTASK)
    \/ \E a \in ActionIds : Acquire(a)
    \/ \E a \in ActionIds : Check(a)
    \/ \E a \in ActionIds : MarkFail(a)
    \/ \E a \in ActionIds : Steal(a)
    \/ \E a \in ActionIds : Flow1(a)
    \/ \E a \in ActionIds : Flow2(a, FALSE)
    \/ \E a \in ActionIds : Release(a)
    \/ \E a \in ActionIds : SetStatus(a, FALSE)

LockLiveSpec ==
    /\ Init
    /\ [][LockLiveNext]_vars
    /\ \A a \in ActionIds :
         /\ WF_vars(Acquire(a))
         /\ WF_vars(Check(a))
         /\ WF_vars(MarkFail(a))
         /\ WF_vars(Steal(a))
         /\ WF_vars(Flow1(a))
         /\ WF_vars(Flow2(a, FALSE))
         /\ WF_vars(Release(a))
         /\ WF_vars(SetStatus(a, FALSE))

\* the ledger of the user with the two halves of a job firing as separate
\* steps: the action thread the firing starts, and what follows it, runs
\* before or after the job_delete of the firing; the user may be deleted
Exists == db_user.status # DELETED

JobNext ==
    \/ \E d \in 1..LedgerTime :
          Quiet /\ Exists /\ Tick(d) /\ now' <= LedgerTime
    \/ \E r \in ResIds, p \in Prices :
          Quiet /\ Exists /\ ResourceRequest("create", r, p)
    \/ \E r \in ResIds : Quiet /\ Exists /\ ResourceRequest("delete", r, 0)
    \/ \E a \in ActionIds : StartAction(LedgerEngine, a)
    \/ Quiet /\ Exists /\ SettleRequest(LedgerEngine, DAILY)
    \/ \E j \in JobTypes : Quiet /\ Exists /\ FireJobCall(j, LedgerEngine)
    \/ \E j \in JobTypes : FireJobDelete(j)
    \/ \E a \in ActionIds : Acquire(a)
    \/ \E a \in ActionIds : Flow1(a)
    \/ \E a \in ActionIds, timeout \in BOOLEAN : Flow2(a, timeout)
    \/ \E a \in ActionIds : Release(a)
    \/ \E a \in ActionIds : SetStatus(a, TRUE)
    \/ \E value \in 1..MaxRechargeValue :
          Quiet /\ Exists /\ RechargeLoad(value)
    \/ RechargeStore
    \/ RechargeJobs
    \/ Quiet /\ UserDelete

JobSpec == Init /\ [][JobNext]_vars

\* the ledger of the user with its consumption table, one operation at a
\* time and without recharges
ConsNext ==
    \/ \E d \in 1..LedgerTime : Quiet /\ Tick(d) /\ now' <= LedgerTime
    \/ \E r \in ResIds, p \in Prices :
          Quiet /\ ResourceRequest("create", r, p)
    \/ \E r \in ResIds, p \in Prices :
          Quiet /\ cons.n < MaxCons /\ ResourceRequest("update", r, p)
    \/ \E r \in ResIds : Quiet /\ TouchRequest(r)
    \/ \E r \in ResIds :
          Quiet /\ cons.n < MaxCons /\ ResourceRequest("delete", r, 0)
    \/ \E a \in ActionIds : StartAction(LedgerEngine, a)
    \/ \E j \in JobTypes : Quiet /\ FireJob(j, LedgerEngine)
    \/ \E a \in ActionIds : Acquire(a)
    \/ \E a \in ActionIds : Flow1(a)
    \/ \E a \in ActionIds, timeout \in BOOLEAN : Flow2(a, timeout)
    \/ \E a \in ActionIds : Release(a)
    \/ \E a \in ActionIds : SetStatus(a, TRUE)

ConsSpec == ConsInit /\ [][ConsNext]_vars

\* the settlement of delayed resource events: a user, a resource event with
\* its own timestamp, and the time it is processed at
DelayUsers ==
    {[balance |-> b, rate |-> r, status |-> st, last_bill |-> 0] :
       b \in {0, 50}, r \in {0, 1}, st \in {FREE, ACTIVE, WARNING}}

Stamps == {NoStamp, 0, 1}

UpdateWithResource(u, d_rate, stamp, t) ==
    /\ (u.status = FREE) <=> (u.rate = 0)
    /\ d_rate # 0 /\ u.rate + d_rate >= 0
    /\ stamp <= t
    /\ LET res == update_with_resource(u, d_rate, stamp, t)
       IN dly' = [op |-> "update_with_resource", before |-> u,
                  after |-> res.u, d_rate |-> d_rate, stamp |-> stamp,
                  at |-> t, settled |-> res.settled, raised |-> res.raised,
                  delayed_cost |-> 0]
    /\ UNCHANGED <<now, alive, svc, crashes, user_lock, act, db_user,
                   resources, rc, recharges, sjob, dbjob, acc, charged,
                   rollbacks, firing, cons>>

DoCreateResource(u, rate, stamp, t) ==
    /\ (u.status = FREE) <=> (u.rate = 0)
    /\ rate >= 0
    /\ stamp <= t
    /\ LET res == do_create_resource(u, rate, stamp, t)
       IN dly' = [op |-> "do_create_resource", before |-> u,
                  after |-> res.u, d_rate |-> rate, stamp |-> stamp,
                  at |-> t, settled |-> res.settled, raised |-> res.raised,
                  delayed_cost |-> 0]
    /\ UNCHANGED <<now, alive, svc, crashes, user_lock, act, db_user,
                   resources, rc, recharges, sjob, dbjob, acc, charged,
                   rollbacks, firing, cons>>

ResourceCreate(rate, stamp, t) ==
    /\ rate >= 0
    /\ stamp <= t
    /\ dly' = [NoDelay EXCEPT
                 !.op = "_create", !.d_rate = rate, !.stamp = stamp,
                 !.at = t,
                 !.delayed_cost = Resource_create(rate, stamp, t).delayed_cost]
    /\ UNCHANGED <<now, alive, svc, crashes, user_lock, act, db_user,
                   resources, rc, recharges, sjob, dbjob, acc, charged,
                   rollbacks, firing, cons>>

DelayNext ==
    \/ \E u \in DelayUsers, d \in {0 - 1, 1, 2}, s \in Stamps,
          t \in 0..MaxDelay : UpdateWithResource(u, d, s, t)
    \/ \E u \in DelayUsers, d \in 0..2, s \in Stamps, t \in 0..MaxDelay :
          DoCreateResource(u, d, s, t)
    \/ \E d \in 0..2, s \in Stamps, t \in 0..MaxDelay :
          ResourceCreate(d, s, t)

DelaySpec == Init /\ [][DelayNext]_vars

\* settle requests whose execution may end with any of Action.RETURNS; an
\* abandoned action is started again
StatusNext ==
    \/ SettleRequest(LedgerEngine, NOTASK)
    \/ \E a \in ActionIds : StartAction(LedgerEngine, a)
    \/ \E a \in ActionIds : Acquire(a)
    \/ \E a \in ActionIds : Check(a)
    \/ \E a \in ActionIds, res \in RETURNS \ {RES_OK, RES_ERROR},
          reason \in {None, Given} : ExecuteReturns(a, res, reason)
    \/ \E a \in ActionIds : Flow1(a)
    \/ \E a \in ActionIds, timeout \in BOOLEAN : Flow2(a, timeout)
    \/ \E a \in ActionIds : Release(a)
    \/ \E a \in ActionIds : SetStatus(a, FALSE)

StatusSpec == Init /\ [][StatusNext]_vars

\* settle actions that have a timeout, while time passes and clients cancel
\* them
SignalNext ==
    \/ \E d \in 1..LedgerTime : Tick(d) /\ now' <= LedgerTime
    \/ TimedRequest(LedgerEngine, NOTASK, default_action_timeout)
    \/ \E a \in ActionIds : CancelAction(a)
    \/ \E a \in ActionIds : Acquire(a)
    \/ \E a \in ActionIds : Check(a)
    \/ \E a \in ActionIds : Flow1(a)
    \/ \E a \in ActionIds, timeout \in BOOLEAN : Flow2(a, timeout)
    \/ \E a \in ActionIds : Release(a)
    \/ \E a \in ActionIds : SetStatus(a, FALSE)

SignalSpec == Init /\ [][SignalNext]_vars

\* every engine tries to start every action, by id or as the first ready
\* one, while engines die and actions fail or are abandoned
DispatchNext ==
    \/ \E e \in Engines : Crash(e)
    \/ \E r \in ResIds, p \in Prices :
          Pair /\ ResourceRequest("create", r, p)
    \/ \E e \in Engines, a \in ActionIds : StartAction(e, a)
    \/ \E e \in Engines : StartFirstReady(e)
    \/ \E a \in ActionIds : Acquire(a)
    \/ \E a \in ActionIds : Check(a)
    \/ \E a \in ActionIds : ExecuteReturns(a, RES_RETRY, None)
    \/ \E a \in ActionIds : Flow1(a)
    \/ \E a \in ActionIds : Flow2(a, FALSE)
    \/ \E a \in ActionIds : Release(a)
    \/ \E a \in ActionIds : SetStatus(a, FALSE)

DispatchSpec == Init /\ [][DispatchNext]_vars

\* requests that contend for the lock of the user on engines whose heartbeat
\* may fail to be written while their threads go on
TakeoverNext ==
    \/ \E d \in 1..MaxTime : Tick(d)
    \/ \E d \in 1..MaxTime, e \in Engines : TickMissed(d, e)
    \/ \E r \in ResIds, p \in Prices :
          Pair /\ ResourceRequest("create", r, p)
    \/ \E e \in Engines, a \in ActionIds : StartAction(e, a)
    \/ \E e \in Engines : Pair /\ SettleRequest(e, NOTASK)
    \/ \E a \in ActionIds : Acquire(a)
    \/ \E a \in ActionIds : Check(a)
    \/ \E a \in ActionIds : MarkFail(a)
    \/ \E a \in ActionIds : Steal(a)
    \/ \E a \in ActionIds : Flow1(a)
    \/ \E a \in ActionIds : Flow2(a, FALSE)
    \/ \E a \in ActionIds : Release(a)
    \/ \E a \in ActionIds : SetStatus(a, FALSE)

TakeoverSpec == Init /\ [][TakeoverNext]_vars

\* the lock table under clients that call its three primitives in any order;
\* seen is the owner the last acquire or steal of a client returned, locked
\* whether the client was told it owns the row
ApiAcquire(a) ==
    /\ user_lock' = db_user_lock_acquire(user_lock, a)
    /\ act' = [act EXCEPT ![a].seen = lock_row(user_lock'),
                          ![a].locked = (lock_row(user_lock') = a)]
    /\ UNCHANGED <<dly, firing, cons,
                   now, alive, svc, crashes, db_user, resources, rc,
                   recharges, sjob, dbjob, acc, charged, rollbacks>>

ApiRelease(a) ==
    /\ user_lock' = db_user_lock_release(user_lock, a).locks
    /\ act' = [act EXCEPT ![a].locked =
                 IF db_user_lock_release(user_lock, a).success
                 THEN FALSE ELSE @]
    /\ UNCHANGED <<dly, firing, cons,
                   now, alive, svc, crashes, db_user, resources, rc,
                   recharges, sjob, dbjob, acc, charged, rollbacks>>

ApiSteal(a) ==
    /\ user_lock' = db_user_lock_steal(user_lock, a)
    /\ act' = [act EXCEPT ![a].seen = lock_row(user_lock'),
                          ![a].locked = (lock_row(user_lock') = a)]
    /\ UNCHANGED <<dly, firing, cons,
                   now, alive, svc, crashes, db_user, resources, rc,
                   recharges, sjob, dbjob, acc, charged, rollbacks>>

ApiNext ==
    \/ \E a \in ActionIds : ApiAcquire(a)
    \/ \E a \in ActionIds : ApiRelease(a)
    \/ \E a \in ActionIds : ApiSteal(a)

ApiSpec == Init /\ [][ApiNext]_vars

\* ------------------------------------------------------------ properties
\* an action that was told it owns the lock of the user and runs on a live
\* engine
holds(a) == act[a].locked /\ running(a)

\* C1: at most one action at a time is between a user_lock_acquire that
\* returned True and its own user_lock_release, also when waiting actions take
\* the lock over from an owner whose engine is judged dead.
C1_MutualExclusion ==
    \A a, b \in ActionIds : a # b => ~(holds(a) /\ holds(b))

\* C8: acquire(u, a) succeeds exactly when there is no row or the row is
\* already a's; an acquire by another action fails and leaves the row as it
\* is; the row stays a's until release(u, a) or a steal; there is never more
\* than one row.
C8_AcquireExclusive ==
    [][/\ \A a \in ActionIds :
            ApiAcquire(a) =>
              /\ (lock_row(user_lock') = a)
                   <=> (lock_row(user_lock) \in {NoId, a})
              /\ lock_row(user_lock) \notin {NoId, a}
                   => user_lock' = user_lock
       /\ \A a \in ActionIds :
            (lock_row(user_lock) = a /\ lock_row(user_lock') # a)
              => (ApiRelease(a) \/ \E b \in ActionIds \ {a} : ApiSteal(b))
       /\ Cardinality(user_lock') <= 1]_vars

\* a client is told it owns the row while another client's acquire was refused
\* and left the row alone
C8_Witness ==
    \E a, b \in ActionIds :
        /\ a # b
        /\ user_lock = {a}
        /\ act[a].locked /\ act[a].seen = a
        /\ ~act[b].locked /\ act[b].seen = a

\* C9: release(u, a) deletes the row and reports success only when the row is
\* a's; with no row or another owner it changes nothing and reports false, so
\* the release after a failed acquire never frees the holder's lock.
C9_ReleaseOwnRowOnly ==
    [][\A a \in ActionIds :
         Release(a) =>
           IF lock_row(user_lock) = a
           THEN /\ user_lock' = {}
                /\ db_user_lock_release(user_lock, a).success
           ELSE /\ user_lock' = user_lock
                /\ ~db_user_lock_release(user_lock, a).success]_vars

\* an action that failed to get the lock has done its release while the
\* holder still owns the row
C9_Witness ==
    \E a, b \in ActionIds :
        /\ a # b
        /\ act[a].pc = "set_status" /\ act[a].result = RES_ERROR
        /\ act[a].seen = b
        /\ holds(b) /\ lock_row(user_lock) = b

\* the heartbeat of the engine of the action seen owning the lock is at most
\* 2 * periodic_interval old
fresh_owner(a) ==
    /\ act[a].seen # NoId
    /\ act[act[a].seen].owner # None
    /\ now - svc[act[act[a].seen].owner] <= 2 * HeartbeatTicks

SettleStep(a) ==
    /\ act[a].kind = "settle"
    /\ act[a].pc = "flow1"
    /\ act'[a].pc # "flow1"

\* C2: after every completed resource create, update or delete (successful or
\* rolled back) and after a freeze, the stored rate of the user is the sum of
\* the rates of its resources that are not deleted.
C2_RateIsSum ==
    [][\A a \in ActionIds :
         (/\ act[a].pc \in {"flow1", "flow2"}
          /\ act'[a].pc = "release"
          /\ act[a].kind # "settle" \/ act[a].task = FREEZE_TASK)
           => db_user'.rate = SumRates(resources', ResIds)]_vars

\* C3: the stored balance is all that was recharged minus rate x duration
\* over every interval up to last_bill in which the user was ACTIVE or
\* WARNING.
C3_BalanceIsLedger ==
    db_user.balance = recharges.total - acc[db_user.last_bill]

\* C4 as claimed: every settlement takes rate x elapsed from the balance and
\* sets last_bill to now.
C4_SettleAlways ==
    [][\A a \in ActionIds :
         SettleStep(a) =>
           /\ db_user'.balance
                = db_user.balance - db_user.rate * (now - db_user.last_bill)
           /\ db_user'.last_bill = now]_vars

\* C4, amended: a settlement of an ACTIVE or WARNING user takes rate x elapsed
\* from the balance and sets last_bill to now, so with nothing elapsed it
\* changes neither; a settlement of a user in another status changes neither
\* balance nor last_bill.
C4_SettleWhenCharging ==
    [][\A a \in ActionIds :
         SettleStep(a) =>
           IF db_user.status \in {ACTIVE, WARNING}
           THEN /\ db_user'.balance
                     = db_user.balance
                       - db_user.rate * (now - db_user.last_bill)
                /\ db_user'.last_bill = now
                /\ now = db_user.last_bill
                     => /\ db_user'.balance = db_user.balance
                        /\ db_user'.last_bill = db_user.last_bill
           ELSE /\ db_user'.balance = db_user.balance
                /\ db_user'.last_bill = db_user.last_bill]_vars

\* a settlement has just charged a positive cost for a positive elapsed time
C4_Witness ==
    \E a \in ActionIds :
        /\ act[a].kind = "settle" /\ act[a].pc = "flow2"
        /\ act[a].bak.status \in {ACTIVE, WARNING}
        /\ act[a].bak.rate > 0
        /\ act[a].bak.last_bill < now
        /\ db_user.last_bill = now
        /\ db_user.balance
             = act[a].bak.balance
               - act[a].bak.rate * (now - act[a].bak.last_bill)

\* every resource of the user is deleted
AllDeleted == \A r \in ResIds : resources[r].state # "live"

C7_NoLostUpdate ==
    Quiet => db_user.balance = recharges.total - charged

\* the user is charged and its balance runs out within the modelled time
Exhausted ==
    /\ db_user.status \in {ACTIVE, WARNING}
    /\ db_user.rate > 0
    /\ db_user.balance <= db_user.rate * (LedgerTime - db_user.last_bill)

StealStep(a) == act[a].pc = "steal" /\ act'[a].pc = "flow1"

\* the owner of the action that holds the lock row is an engine that has died
dead_holder(o) ==
    /\ o # NoId
    /\ act[o].worker # None
    /\ ~alive[act[o].worker]

\* C11: a non-forced user_lock_acquire that takes the lock over has marked the
\* owning action FAILED before it overwrites the row, it returns True with the
\* caller as owner, and the lock is never taken over from a dead owner whose
\* action is left RUNNING.
C11_FailedBeforeSteal ==
    [][\A a \in ActionIds :
         StealStep(a) =>
           /\ act[act[a].seen].status = "FAILED"
           /\ lock_row(user_lock') = a
           /\ act'[a].locked
           /\ \A o \in ActionIds \ {a} :
                (lock_row(user_lock) = o /\ dead_holder(o))
                  => act[o].status # "RUNNING"]_vars

\* C12: once UserAction.execute of an action has finished, the lock row is not
\* owned by that action, and while its engine lives every lock an action has
\* acquired is eventually released.
C12_LockReleased ==
    /\ [](\A a \in ActionIds :
            act[a].pc \in {"set_status", "done"} => lock_row(user_lock) # a)
    /\ \A a \in ActionIds :
         (lock_row(user_lock) = a /\ act[a].locked)
           ~> (lock_row(user_lock) # a \/ ~running(a))

\* an action that failed to get the lock and an action that ran its flow have
\* both finished execute on a live engine
C12_Witness ==
    \E a, b \in ActionIds :
        /\ act[a].pc = "done" /\ act[a].status = "FAILED" /\ act[a].seen = NoId
        /\ act[b].pc = "done" /\ act[b].status = "SUCCEEDED"
        /\ user_lock = {}

\* the step of action a in which its flow fails and reverts
RevertStep(a) ==
    /\ act[a].pc = "flow2"
    /\ act'[a].pc = "release"
    /\ act'[a].result = RES_ERROR

\* C13: when a step of a flow fails, after the compensations the user record
\* and the resource record are the same as before the flow started.
C13_RevertRestores ==
    [][\A a \in ActionIds :
         RevertStep(a) =>
           /\ db_user' = act[a].bak
           /\ act[a].kind # "settle"
                => resources'[act[a].res] = act[a].old]_vars

\* the order of the steps of an action thread
StepOrder ==
    {<<"idle", "acquire">>, <<"acquire", "flow1">>, <<"acquire", "check">>,
     <<"check", "release">>, <<"check", "markfail">>,
     <<"markfail", "steal">>, <<"steal", "flow1">>,
     <<"flow1", "flow2">>, <<"flow1", "release">>, <<"flow2", "release">>,
     <<"release", "set_status">>, <<"set_status", "idle">>,
     <<"set_status", "done">>}

\* action a takes a step of its flow
FlowStep(a) == act[a].pc \in {"flow1", "flow2"} /\ act'[a].pc # act[a].pc

\* C14: an action acquires the lock, mutates the resource, settles and changes
\* the rate, reschedules the jobs and releases the lock, in this order; it
\* writes the user record and the resource records only between its acquire
\* and its release.
C14_WritesUnderLock ==
    [][/\ \A a \in ActionIds :
            /\ act'[a].pc # act[a].pc
                 => (act'[a].kind = "none"
                     \/ <<act[a].pc, act'[a].pc>> \in StepOrder)
            /\ FlowStep(a) => act[a].locked
       /\ (db_user' # db_user \/ resources' # resources)
            => \/ rc.pc = "store" /\ rc'.pc = "jobs"
               \/ \E a \in ActionIds : FlowStep(a)
       /\ sjob' # sjob
            => \/ rc.pc = "jobs" /\ rc'.pc = "idle"
               \/ \E a \in ActionIds : act[a].pc = "flow2" /\ FlowStep(a)
               \/ \E a \in ActionIds : act[a].kind = "none"
                                        /\ act'[a].task \in JobTypes
      ]_vars

\* an action has given up on the lock while its owner, between its store of the
\* charged user and the call to the scheduler, still holds it
C14_Witness ==
    \E a, b \in ActionIds :
        /\ act[a].pc = "release"
        /\ act[a].result = RES_ERROR
        /\ act[a].seen = b
        /\ act[b].pc = "flow2"
        /\ act[b].locked
        /\ db_user.status = ACTIVE
        /\ db_user # act[b].bak

\* the step of action a that applies the rate delta of its resource task
RateStep(a) ==
    /\ act[a].kind \in {"create", "update", "delete"}
    /\ act[a].pc = "flow1"
    /\ act'[a].pc = "flow2"

\* C15: a positive rate delta makes a FREE user ACTIVE (with last_bill = now
\* when the old rate was 0) and leaves every other status as it is; FREEZE is
\* left only through a recharge.
C15_ActiveOnlyFromFree ==
    [][/\ \A a \in ActionIds :
            (RateStep(a) /\ db_user'.rate > db_user.rate) =>
               IF db_user.status = FREE
               THEN /\ db_user'.status = ACTIVE
                    /\ db_user.rate = 0 => db_user'.last_bill = now
               ELSE db_user'.status = db_user.status
       /\ (db_user.status = FREEZE /\ db_user'.status # FREEZE)
            => (rc.pc = "store" /\ rc'.pc = "jobs")]_vars

\* C16: a user in ACTIVE or WARNING status has rate > 0; when its rate becomes
\* 0 because its resources were removed the user becomes FREE.
C16_ChargedHasRate ==
    db_user.status \in {ACTIVE, WARNING} => db_user.rate > 0

\* C17: when a negative rate delta leaves a WARNING user with rate > 0, the
\* user becomes ACTIVE exactly when its balance exceeds the notify window at
\* the new rate.
C17_RunwayWithNewRate ==
    [][\A a \in ActionIds :
         (/\ RateStep(a)
          /\ db_user.status = WARNING
          /\ db_user'.rate < db_user.rate
          /\ db_user'.rate > 0)
         => /\ db_user'.status \in {ACTIVE, WARNING}
            /\ db_user'.status = ACTIVE
                 <=> db_user'.balance > NotifyWindow * db_user'.rate]_vars

\* the step of the recharge RPC that runs User.do_recharge
RechargeStep == rc.pc = "store" /\ rc'.pc = "jobs"

\* C18 as stated: a recharge with value > 0 moves an INIT or FREEZE user to
\* FREE, a WARNING user to ACTIVE exactly when the recharged balance exceeds
\* the notify window at its rate, and leaves FREE and ACTIVE as they are.
C18_RechargeAlwaysFrees ==
    [][(RechargeStep /\ rc.value > 0) =>
          db_user'.status =
            IF rc.user.status \in {INIT, FREEZE} THEN FREE
            ELSE IF rc.user.status = WARNING
                    /\ db_user'.balance > NotifyWindow * db_user'.rate
            THEN ACTIVE
            ELSE rc.user.status]_vars

\* C18, amended: an INIT or FREEZE user becomes FREE only when the recharged
\* balance is above 0 and otherwise keeps its status; the rest as stated.
C18_RechargeStatus ==
    [][(RechargeStep /\ rc.value > 0) =>
          /\ db_user'.balance = rc.user.balance + rc.value
          /\ db_user'.status =
               IF rc.user.status \in {INIT, FREEZE}
                  /\ db_user'.balance > 0
               THEN FREE
               ELSE IF rc.user.status = WARNING
                       /\ db_user'.balance > NotifyWindow * db_user'.rate
               THEN ACTIVE
               ELSE rc.user.status]_vars

\* a recharge has been stored for a FREEZE user whose balance it did not
\* bring above 0
C18_Witness ==
    /\ rc.pc = "jobs"
    /\ rc.value > 0
    /\ db_user.status = FREEZE
    /\ db_user.balance <= 0
    /\ recharges.n > 0

\* C19: a recharge with a negative value is rejected: it changes neither the
\* user record nor the recharge records.
C19_NegativeRejected ==
    [][rc.value < 0 => (db_user' = db_user /\ recharges' = recharges)]_vars

\* C20: the freeze task on a WARNING user whose settled balance is <= 0 ends
\* with the user FREEZE, rate 0 and every resource deleted; with a settled
\* balance > 0 it deletes nothing and changes neither status nor rate; it never
\* puts a user that is not WARNING into FREEZE.
C20_FreezeTask ==
    [][\A a \in ActionIds :
         (SettleStep(a) /\ act[a].task = FREEZE_TASK) =>
           /\ (db_user.status = WARNING /\ db_user'.balance <= 0)
                => /\ db_user'.status = FREEZE
                   /\ db_user'.rate = 0
                   /\ AllDeleted'
           /\ (db_user.status = WARNING /\ db_user'.balance > 0)
                => /\ db_user'.status = WARNING
                   /\ db_user'.rate = db_user.rate
                   /\ resources' = resources
           /\ (db_user'.status = FREEZE /\ db_user.status # FREEZE)
                => db_user.status = WARNING]_vars

\* C21: the notify task moves a user to WARNING exactly when the user is ACTIVE
\* and its settled balance is at most notify_window x rate; a notify settlement
\* never puts an INIT, FREE or FREEZE user into WARNING.
C21_WarningFromActive ==
    [][\A a \in ActionIds :
         (SettleStep(a) /\ act[a].task = NOTIFY) =>
           /\ db_user.status = ACTIVE
                => /\ db_user'.status \in {ACTIVE, WARNING}
                   /\ db_user'.status = WARNING
                        <=> db_user'.balance <= NotifyWindow * db_user'.rate
           /\ db_user.status \in {INIT, FREE, FREEZE}
                => db_user'.status # WARNING]_vars

\* the step in which the scheduler handles an update_jobs call for user u
UpdateJobsCall(u) ==
    \/ \E a \in ActionIds :
         /\ act[a].pc = "flow2"
         /\ act'[a].pc = "release"
         /\ u = from_dict_to_dict(act[a].obj)
         /\ act'[a].result = RES_OK \/ ~update_jobs(u, sjob, dbjob, now).ok
    \/ /\ rc.pc = "jobs"
       /\ rc'.pc = "idle"
       /\ u = from_dict_to_dict(rc.user)

\* the users of the update_jobs calls that are under way
JobsUsers ==
    {from_dict_to_dict(act[a].obj) : a \in ActionIds}
      \cup {from_dict_to_dict(rc.user)}

\* C22: there is at most one live job per job type; an update_jobs call never
\* fails on a job row that already exists, and it leaves an ACTIVE user with
\* exactly a notify job, a WARNING user with exactly a freeze job and any other
\* user with neither.
C22_OneJobPerStatus ==
    [][/\ \A j \in JobTypes : Cardinality(sjob'[j]) <= 1
       /\ \A u \in JobsUsers :
            UpdateJobsCall(u) =>
              /\ update_jobs(u, sjob, dbjob, now).ok
              /\ sjob'[NOTIFY] # {} <=> u.status = ACTIVE
              /\ sjob'[FREEZE_TASK] # {} <=> u.status = WARNING]_vars

\* the step in which the job of type j fires and _task makes its RPC
FireStep(j) == j \notin firing /\ j \in firing'

\* the step in which the _task of the fired job of type j deletes the job row
RowDeleteStep(j) == j \in firing /\ j \notin firing'

\* C23: a notify or freeze job that fires has the account settled with its
\* task type and afterwards its row is gone; the firing of the daily job
\* removes no job; when a firing and the rescheduling it triggers are over, a
\* job row exists for a job type exactly when a job of the type is pending in
\* the scheduler.
C23_RowIffPending ==
    /\ [][/\ \A j \in JobTypes :
               /\ FireStep(j)
                    => \E a \in ActionIds :
                         /\ act[a].kind = "none"
                         /\ act'[a].kind = "settle"
                         /\ act'[a].task = j
               /\ RowDeleteStep(j) => ~dbjob'[j]
          /\ (\E a \in ActionIds :
                act[a].kind = "none" /\ act'[a].task = DAILY)
               => (sjob' = sjob /\ dbjob' = dbjob)]_vars
    /\ []((Quiet /\ firing = {})
            => \A j \in JobTypes : dbjob[j] <=> (sjob[j] # {}))

\* C24: for a user with rate > 0 the freeze job is due at now + balance / rate
\* (the first tick at which rate x elapsed reaches the balance) and the notify
\* job the notify window before that, never earlier than now; for a user with
\* rate 0 no notify or freeze job is scheduled.
C24_RunDates ==
    [][\A u \in JobsUsers :
         UpdateJobsCall(u) =>
           /\ u.rate = 0 => \A j \in JobTypes : sjob'[j] = {}
           /\ u.rate > 0 =>
                /\ u.status = WARNING => sjob'[FREEZE_TASK] # {}
                /\ u.status = ACTIVE => sjob'[NOTIFY] # {}
                /\ \A due \in sjob'[FREEZE_TASK] :
                     /\ u.rate * (due - now) >= u.balance
                     /\ u.rate * (due - now - 1) < u.balance
                /\ \A due \in sjob'[NOTIFY] :
                     /\ due >= now
                     /\ u.rate * (due - now + NotifyWindow) >= u.balance
                     /\ due > now
                          => u.rate * (due - now + NotifyWindow - 1)
                               < u.balance]_vars

\* the notify job of a user has fired at the notify window and the freeze job
\* is pending for the tick at which the balance runs out
C24_Witness ==
    /\ Quiet
    /\ db_user.status = WARNING
    /\ db_user.rate > 0
    /\ db_user.balance = db_user.rate
    /\ db_user.last_bill = now
    /\ sjob[FREEZE_TASK] = {now + 1}
    /\ sjob[NOTIFY] = {}

\* the consumptions a step stores
NewRecs == cons'.recs \ cons.recs

\* the step of the flow that updates resource r
UpdateOf(r) ==
    \E a \in ActionIds :
        RateStep(a) /\ act[a].kind = "update" /\ act[a].res = r

\* the step in which resource r is deleted, by a flow or by a freeze
DeleteOf(r) == resources[r].state = "live" /\ resources'[r].state = "deleted"

\* the consumptions of resource r
RecsOf(r) == {c \in cons.recs : c.res = r}

\* C25: each rate-changing update and each deletion of a resource stores
\* exactly one consumption from the last_bill of the resource to the time of
\* the event, at the rate before the event and with cost rate x length; an
\* update advances last_bill to the time of the event and one that leaves the
\* rate as it is stores none; a stored consumption is not changed later; the
\* consumptions of a resource are contiguous and end at its last_bill.
C25_ConsumptionPerEvent ==
    /\ [][/\ \A r \in ResIds :
               /\ (\/ UpdateOf(r) /\ resources'[r].rate # resources[r].rate
                   \/ DeleteOf(r))
                    => /\ Cardinality(NewRecs) = 1
                       /\ \A c \in NewRecs :
                            /\ c.res = r
                            /\ c.start = cons.bill[r]
                            /\ c.end = now
                            /\ c.rate = resources[r].rate
                            /\ c.cost
                                 = resources[r].rate * (now - cons.bill[r])
               /\ (UpdateOf(r) /\ resources'[r].rate # resources[r].rate)
                    => cons'.bill[r] = now
               /\ (UpdateOf(r) /\ resources'[r].rate = resources[r].rate)
                    => NewRecs = {}
          /\ \A c \in cons.recs :
               \/ c \in cons'.recs
               \/ \E a \in ActionIds : RevertStep(a) /\ act[a].con = c.id
         ]_vars
    /\ [](Quiet =>
            \A r \in ResIds :
              /\ \A c \in RecsOf(r) :
                   \/ \E d \in RecsOf(r) : d.id > c.id /\ d.start = c.end
                   \/ /\ \A d \in RecsOf(r) : d.id <= c.id
                      /\ resources[r].state = "live"
                           => cons.bill[r] = c.end
              /\ \A c, d \in RecsOf(r) :
                   c.id < d.id => c.end <= d.start)

\* C26: a resource event processed more than ALLOW_DELAY_TIME seconds after
\* its own timestamp has the extra cost delta_rate x delay folded into the
\* settlement of the user (a credit when delta_rate is negative); an event
\* processed within the threshold, or one without a timestamp, has no extra
\* cost or credit applied.
Lag == dly.at - dly.stamp

ExpectedExtra ==
    IF dly.stamp # NoStamp /\ Lag > ALLOW_DELAY_TIME
    THEN dly.d_rate * Lag
    ELSE 0

\* what the settlement took from the balance beyond rate x elapsed time
Folded ==
    IF dly.settled
    THEN dly.before.balance
         - dly.before.rate * (dly.at - dly.before.last_bill)
         - dly.after.balance
    ELSE 0

C26_DelayCompensation ==
    /\ dly.op \in {"update_with_resource", "do_create_resource"} =>
         /\ ~dly.raised
         /\ Folded = ExpectedExtra
    /\ dly.op = "_create" => dly.delayed_cost = ExpectedExtra

\* C27: when ActionProc finishes, the status of the action is SUCCEEDED if the
\* result was OK, FAILED with a reason if it was ERROR or TIMEOUT (an
\* exception and a lock that could not be acquired give ERROR), CANCELLED if
\* it was CANCEL, and READY with no owner if it was RETRY; it is never left
\* RUNNING.
ProcEnd(a) == act[a].pc = "set_status" /\ act'[a].pc \in {"done", "idle"}

LockFailed(a) == act[a].pc = "check" /\ act'[a].pc = "release"

\* a task of the flow raised and the flow was reverted
FlowRaised(a) ==
    /\ act[a].pc = "flow2"
    /\ act'[a].pc = "release"
    /\ rollbacks' # rollbacks

C27_FinalStatus ==
    [][\A a \in ActionIds :
         /\ (LockFailed(a) \/ FlowRaised(a)) => act'[a].result = RES_ERROR
         /\ ProcEnd(a) =>
              /\ act[a].result = RES_OK => act'[a].status = "SUCCEEDED"
              /\ act[a].result \in {RES_ERROR, RES_TIMEOUT} =>
                   /\ act'[a].status = "FAILED"
                   /\ act'[a].reason # None
              /\ act[a].result = RES_CANCEL => act'[a].status = "CANCELLED"
              /\ act[a].result = RES_RETRY =>
                   /\ act'[a].status = "READY"
                   /\ act'[a].owner = None
              /\ act'[a].status # "RUNNING"]_vars

C27_Witness ==
    /\ \E a \in ActionIds :
         /\ act[a].pc = "idle"
         /\ act[a].status = "READY"
         /\ act[a].reason = "abandoned"
    /\ \E a \in ActionIds :
         act[a].pc = "done" /\ act[a].status = "CANCELLED"
    /\ \E a \in ActionIds :
         /\ act[a].pc = "done"
         /\ act[a].status = "FAILED"
         /\ act[a].reason = "TIMEOUT"

\* C28: a running action that is marked for cancellation is noticed at the
\* next step of its flow, which is not run, and the action ends CANCELLED; an
\* action that has run longer than its timeout is stopped at the next step
\* and ends FAILED with the reason TIMEOUT.
C28_CancelAndTimeout ==
    [][\A a \in ActionIds :
         FlowStep(a) =>
           /\ _check_signal(act[a], now) = RES_TIMEOUT =>
                /\ act'[a].pc = "release"
                /\ act'[a].result = RES_TIMEOUT
                /\ db_user' = db_user
           /\ _check_signal(act[a], now) = SIG_CANCEL =>
                /\ act'[a].pc = "release"
                /\ act'[a].result = RES_CANCEL
                /\ db_user' = db_user]_vars

\* C29: an action is executed by at most one worker at a time: start_action
\* hands an action out only when it is READY, and then it is RUNNING with the
\* caller as owner; no worker is given an action that a live thread is still
\* executing, and an action that is SUCCEEDED, FAILED or CANCELLED is never
\* run again.
HandOut(a) ==
    /\ act[a].kind # "none"
    /\ act'[a].pc = "acquire"
    /\ act[a].pc # "acquire" \/ act'[a].worker # act[a].worker

Executing(a) == running(a) /\ act[a].pc \notin {"idle", "done"}

C29_OneWorker ==
    [][\A a \in ActionIds :
         HandOut(a) =>
           /\ act[a].status = "READY"
           /\ act[a].owner = None
           /\ ~Executing(a)
           /\ act'[a].status = "RUNNING"
           /\ act'[a].owner = act'[a].worker]_vars

C29_Witness ==
    \E a, b \in ActionIds :
       /\ a # b
       /\ act[a].status = "RUNNING" /\ act[a].reason = "abandoned"
       /\ act[a].worker # LedgerEngine
       /\ act[b].status = "FAILED" /\ act[b].pc = "done"

\* C30: the terminal statuses of an action are absorbing: once its row is
\* FAILED (in particular by a lock taker that judged its engine dead),
\* SUCCEEDED or CANCELLED, no later set_status or mark call changes the
\* status; and an action that was failed for a takeover of the lock writes
\* the record of the user no more.
Terminal == {"SUCCEEDED", "FAILED", "CANCELLED"}

C30_TerminalAbsorbing ==
    [][\A a \in ActionIds :
         /\ act[a].status \in Terminal => act'[a].status = act[a].status
         /\ (act[a].status = "FAILED" /\ FlowStep(a)) => db_user' = db_user
      ]_vars

====
